---- MODULE Spec2Model ----
(***************************************************************************)
(* Model of advisor.py: the rule-based recommendation function             *)
(* `recommend`, its helper `adjust`, and the command-line driver `main`    *)
(* with its two persistence steps (history.json and the text report).      *)
(*                                                                         *)
(* Numbers.  Python floats are modelled as exact rationals [num, den]      *)
(* (den > 0, lowest terms).  On the enumerated bases, thresholds and soil  *)
(* values, exact arithmetic and IEEE double arithmetic give the same       *)
(* comparisons and the same rounded results; NaN, infinities and integers  *)
(* beyond 2^53 are not enumerated.                                         *)
(*                                                                         *)
(* Strings.  Crop names are sequences of code points, so that str.strip,   *)
(* str.lower, sorted() and ', '.join are computed, not assumed.            *)
(***************************************************************************)
EXTENDS Integers, Sequences, FiniteSets, TLC

\* ---------------------------------------------------------------- bounds
MaxCropLen == 2      \* longest --crop argument enumerated
MaxCrops == 2        \* most crops in an enumerated rule table
MaxRuns == 2         \* invocations of main in one behaviour
MaxClock == 1        \* seconds the wall clock may advance

\* ------------------------------------------------------------- rationals
RECURSIVE Gcd(_, _)
Gcd(a, b) ==
    IF b = 0 THEN a ELSE Gcd(b, a % b)

Abs(x) ==
    IF x < 0 THEN -x ELSE x

\* The rational a/b in lowest terms with a positive denominator (b # 0).
Q(a, b) ==
    LET g == Gcd(Abs(a), Abs(b))
        s == IF b < 0 THEN -1 ELSE 1
    IN  [num |-> (s * a) \div g, den |-> (s * b) \div g]

I(a) ==
    [num |-> a, den |-> 1]

RLt(x, y) ==
    x.num * y.den < y.num * x.den

RLe(x, y) ==
    x.num * y.den <= y.num * x.den

RAdd(x, y) ==
    Q(x.num * y.den + y.num * x.den, x.den * y.den)

RSub(x, y) ==
    Q(x.num * y.den - y.num * x.den, x.den * y.den)

RMul(x, y) ==
    LET g1 == Gcd(Abs(x.num), y.den)
        g2 == Gcd(Abs(y.num), x.den)
    IN  Q((x.num \div g1) * (y.num \div g2), (x.den \div g2) * (y.den \div g1))

\* x / y for y > 0 (the only divisor in the program is max(low_thr, 1e-6)).
RDiv(x, y) ==
    RMul(x, [num |-> y.den, den |-> y.num])

\* Python's max(a, b) / min(a, b): the first argument wins a tie.
PyMax(a, b) ==
    IF RLt(a, b) THEN b ELSE a

PyMin(a, b) ==
    IF RLt(b, a) THEN b ELSE a

IsInteger(x) ==
    x.den = 1

\* Python 3 round(x): nearest integer, ties to the even neighbour.
PyRound(x) ==
    LET q == x.num \div x.den
        r == x.num - q * x.den
    IN  IF 2 * r < x.den THEN q
        ELSE IF 2 * r > x.den THEN q + 1
        ELSE IF q % 2 = 0 THEN q ELSE q + 1

\* round(x, 2) as used for the echoed inputs.
PyRound2(x) ==
    Q(PyRound(RMul(x, I(100))), 100)

\* f"{x:.1f}": the number of tenths printed.
Format1f(x) ==
    PyRound(RMul(x, I(10)))

\* --------------------------------------------------------------- strings
SPACE == 32
COMMA == 44

IsSpace(c) ==
    c \in {9, 10, 11, 12, 13, 28, 29, 30, 31, 32}

LowerChar(c) ==
    IF c >= 65 /\ c <= 90 THEN c + 32 ELSE c

lower(s) ==
    [i \in 1..Len(s) |-> LowerChar(s[i])]

strip(s) ==
    LET idx == {i \in 1..Len(s) : ~IsSpace(s[i])}
    IN  IF idx = {} THEN <<>>
        ELSE LET lo == CHOOSE i \in idx : \A j \in idx : i <= j
                 hi == CHOOSE i \in idx : \A j \in idx : j <= i
             IN  SubSeq(s, lo, hi)

\* Python's str < str: lexicographic on code points, a proper prefix first.
StrLt(a, b) ==
    \E i \in 1..(Len(b)) :
        /\ \A j \in 1..(i - 1) : j <= Len(a) /\ a[j] = b[j]
        /\ \/ i = Len(a) + 1
           \/ i <= Len(a) /\ a[i] < b[i]

\* The keys in descending order.
RECURSIVE sortedDesc(_)
sortedDesc(S) ==
    IF S = {} THEN <<>>
    ELSE LET m == CHOOSE x \in S : \A y \in S : y = x \/ StrLt(y, x)
         IN  <<m>> \o sortedDesc(S \ {m})

\* sorted(keys): ascending list of the distinct keys of a dict.
RECURSIVE sorted(_)
sorted(S) ==
    IF S = {} THEN <<>>
    ELSE LET m == CHOOSE x \in S : \A y \in S : y = x \/ StrLt(x, y)
         IN  <<m>> \o sorted(S \ {m})

\* ', '.join(list)
RECURSIVE join(_)
join(l) ==
    IF l = <<>> THEN <<>>
    ELSE IF Len(l) = 1 THEN l[1]
    ELSE l[1] \o <<COMMA, SPACE>> \o join(Tail(l))

\* ------------------------------------------------------------ recommend
Zero == I(0)
One == I(1)
EPS == Q(1, 1000000)
BOOST == Q(3, 10)

clamp(x, lo, hi) ==
    PyMax(lo, PyMin(hi, x))

\* adjust with the boost subtracted instead of added.
adjustDown(base, soil_value, low_thr) ==
    IF RLt(soil_value, low_thr)
    THEN LET severity == clamp(RDiv(RSub(low_thr, soil_value), PyMax(low_thr, EPS)),
                               Zero, One)
         IN  PyRound(RMul(base, RSub(One, RMul(BOOST, severity))))
    ELSE PyRound(base)

\* adjust with the severity taken from the soil value itself, not from its
\* distance below the threshold.
adjustInverted(base, soil_value, low_thr) ==
    IF RLt(soil_value, low_thr)
    THEN LET severity == clamp(RDiv(soil_value, PyMax(low_thr, EPS)), Zero, One)
         IN  PyRound(RMul(base, RAdd(One, RMul(BOOST, severity))))
    ELSE PyRound(base)

\* The nested function adjust(base, soil_value, low_thr) of recommend.
adjust(base, soil_value, low_thr) ==
    IF RLt(soil_value, low_thr)
    THEN LET severity == clamp(RDiv(RSub(low_thr, soil_value), PyMax(low_thr, EPS)),
                               Zero, One)
         IN  PyRound(RMul(base, RAdd(One, RMul(BOOST, severity))))
    ELSE PyRound(base)

\* c.get("notes", [])
GetNotes(c) ==
    IF "notes" \in DOMAIN c THEN c.notes ELSE <<>>

\* The pH branch with the upper bound excluded (>= instead of >).
PhMessageHalfOpen(soil_ph, ideal_low, ideal_high, crop_key) ==
    IF RLt(soil_ph, ideal_low)
    THEN [text |-> "pH LOW", ph |-> Format1f(soil_ph), crop |-> crop_key]
    ELSE IF RLe(ideal_high, soil_ph)
    THEN [text |-> "pH HIGH", ph |-> Format1f(soil_ph), crop |-> crop_key]
    ELSE [text |-> "pH within ideal range", ph |-> Format1f(soil_ph), crop |-> crop_key]

PhMessage(soil_ph, ideal_low, ideal_high, crop_key) ==
    IF RLt(soil_ph, ideal_low)
    THEN [text |-> "pH LOW", ph |-> Format1f(soil_ph), crop |-> crop_key]
    ELSE IF RLt(ideal_high, soil_ph)
    THEN [text |-> "pH HIGH", ph |-> Format1f(soil_ph), crop |-> crop_key]
    ELSE [text |-> "pH within ideal range", ph |-> Format1f(soil_ph), crop |-> crop_key]

\* The rainfall branch with the upper threshold excluded (>= instead of >).
RainfallTipHalfOpen(rainfall_mm, t) ==
    IF rainfall_mm < t.low_rainfall_mm THEN "Rainfall is low"
    ELSE IF rainfall_mm >= t.high_rainfall_mm THEN "High rainfall"
    ELSE "Rainfall seems moderate"

RainfallTip(rainfall_mm, t) ==
    IF rainfall_mm < t.low_rainfall_mm THEN "Rainfall is low"
    ELSE IF rainfall_mm > t.high_rainfall_mm THEN "High rainfall"
    ELSE "Rainfall seems moderate"

NitrogenWarning == [text |-> "Nitrogen looks low"]
PhosphorusWarning == [text |-> "Phosphorus looks low"]
PotassiumWarning == [text |-> "Potassium looks low"]

\* The warnings with potassium checked before phosphorus.
ExtraWarningsSwapped(messages, n, p, k, t) ==
    LET m1 == IF RLt(n, t.low_n) THEN Append(messages, NitrogenWarning) ELSE messages
        m2 == IF RLt(k, t.low_k) THEN Append(m1, PotassiumWarning) ELSE m1
        m3 == IF RLt(p, t.low_p) THEN Append(m2, PhosphorusWarning) ELSE m2
    IN  m3

ExtraWarnings(messages, n, p, k, t) ==
    LET m1 == IF RLt(n, t.low_n) THEN Append(messages, NitrogenWarning) ELSE messages
        m2 == IF RLt(p, t.low_p) THEN Append(m1, PhosphorusWarning) ELSE m1
        m3 == IF RLt(k, t.low_k) THEN Append(m2, PotassiumWarning) ELSE m2
    IN  m3

\* The three adjust calls with nitrogen compared against low_k.
NpkEstimateMiswired(c, n, p, k, t) ==
    << adjust(c.base_npk[1], n, t.low_k),
       adjust(c.base_npk[2], p, t.low_p),
       adjust(c.base_npk[3], k, t.low_k) >>

NpkEstimate(c, n, p, k, t) ==
    << adjust(c.base_npk[1], n, t.low_n),
       adjust(c.base_npk[2], p, t.low_p),
       adjust(c.base_npk[3], k, t.low_k) >>

\* crop.strip().lower()
CropKey(crop) ==
    lower(strip(crop))

UnknownCrop(crop, crops) ==
    [kind |-> "ValueError", what |-> "Unknown crop", crop |-> crop,
     listing |-> join(sorted(DOMAIN crops))]

\* recommend(...): either returns a Result or raises at the lookup.
recommend(crop, soil_ph, n, p, k, rainfall_mm, rules) ==
    LET crop_key == CropKey(crop)
        crops == rules.crops
    IN  IF crop_key \notin DOMAIN crops
        THEN [status |-> "raised", exc |-> UnknownCrop(crop, crops)]
        ELSE LET c == crops[crop_key]
                 t == rules.thresholds
                 messages == <<PhMessage(soil_ph, c.ideal_ph[1], c.ideal_ph[2], crop_key)>>
                 tips == Append(GetNotes(c), RainfallTip(rainfall_mm, t))
             IN  [status |-> "returned",
                  value |-> [crop |-> crop_key,
                             inputs |-> [soil_ph |-> PyRound2(soil_ph),
                                         soil_n |-> PyRound2(n),
                                         soil_p |-> PyRound2(p),
                                         soil_k |-> PyRound2(k),
                                         rainfall_mm |-> rainfall_mm],
                             recommendation |->
                                 [npk_estimate |-> NpkEstimate(c, n, p, k, t),
                                  explain |-> "Rule-based estimate"],
                             messages |-> ExtraWarnings(messages, n, p, k, t),
                             tips |-> tips]]

\* ----------------------------------------------------------------- state
VARIABLES
    rules,      \* the parsed rule document (rules.json)
    pc,         \* position of the running call / of main
    crop,       \* the crop argument as given (args.crop)
    soil_ph,    \* recommend's numeric arguments (main's parsed locals)
    n,
    p,
    k,
    rainfall,
    outcome,    \* what recommend did: nothing yet, a returned Result, a raised error
    argv,       \* the five numeric command-line strings of the current run
    raised,     \* the exception that ended the current run, if any
    stdout,     \* what the current run has printed
    history,    \* outputs/history.json
    reports,    \* the outputs/recommendation_*.txt files
    clock,      \* datetime.now(), in whole seconds
    runs,       \* invocations of main so far
    probe       \* arguments and results of a pair of adjust calls

vars ==
    << rules, pc, crop, soil_ph, n, p, k, rainfall, outcome, argv, raised, stdout,
       history, reports, clock, runs, probe >>

NoOutcome == [status |-> "none"]
NoError == [kind |-> "none"]
NoArgv == [ph |-> <<>>, n |-> <<>>, p |-> <<>>, k |-> <<>>, rainfall |-> <<>>]
NoProbe == [status |-> "none"]
MissingFile == [exists |-> FALSE]

\* ------------------------------------------------------ enumerated inputs
Chars == {SPACE, 65, 97}

CropArgs ==
    UNION {[1..m -> Chars] : m \in 0..MaxCropLen}

\* "a", "A", " a"
TableKeys == {<<97>>, <<65>>, <<SPACE, 97>>}

KeySets ==
    {K \in SUBSET TableKeys : Cardinality(K) <= MaxCrops}

RuleMaize ==
    [ideal_ph |-> <<Q(11, 2), I(7)>>, base_npk |-> <<I(120), I(60), I(40)>>,
     notes |-> <<"note 1", "note 2">>]

\* A table nobody validated: reversed pH range, fractional and negative
\* bases, no notes.
RuleOdd ==
    [ideal_ph |-> <<I(7), Q(11, 2)>>, base_npk |-> <<Q(5, 2), I(-100), Q(1, 2)>>]

CropRules == {RuleMaize, RuleOdd}

ThresholdsUsual ==
    [low_rainfall_mm |-> 400, high_rainfall_mm |-> 1200,
     low_n |-> I(30), low_p |-> I(30), low_k |-> I(30)]

ThresholdsOdd ==
    [low_rainfall_mm |-> 1200, high_rainfall_mm |-> 400,
     low_n |-> I(0), low_p |-> I(-10), low_k |-> I(25)]

ThresholdChoices == {ThresholdsUsual, ThresholdsOdd}

RuleTables ==
    {[crops |-> f, thresholds |-> t] :
        f \in UNION {[K -> CropRules] : K \in KeySets}, t \in ThresholdChoices}

PhValues == {I(5), Q(11, 2), I(7), Q(29, 4)}
NValues == {I(-20), I(20), I(30)}
PValues == {I(-20), I(30)}
KValues == {I(20), I(30)}
RainfallValues == {300, 400, 1200, 1300}

\* ------------------------------------------- recommend called on its own
InitRecommend ==
    /\ rules \in RuleTables
    /\ pc = "call"
    /\ crop = <<>>
    /\ soil_ph = Zero /\ n = Zero /\ p = Zero /\ k = Zero /\ rainfall = 0
    /\ outcome = NoOutcome
    /\ argv = NoArgv
    /\ raised = NoError
    /\ stdout = <<>>
    /\ history = MissingFile
    /\ reports = {}
    /\ clock = 0
    /\ runs = 0
    /\ probe = NoProbe

Call ==
    /\ pc = "call"
    /\ \E c \in CropArgs, ph \in PhValues, vn \in NValues, vp \in PValues,
          vk \in KValues, r \in RainfallValues :
        /\ crop' = c
        /\ soil_ph' = ph /\ n' = vn /\ p' = vp /\ k' = vk /\ rainfall' = r
        /\ outcome' = recommend(c, ph, vn, vp, vk, r, rules)
    /\ pc' = "end"
    /\ UNCHANGED << rules, argv, raised, stdout, history, reports, clock, runs, probe >>

NextRecommend ==
    Call

SpecRecommend ==
    InitRecommend /\ [][NextRecommend]_vars

Returned ==
    pc = "end" /\ outcome.status = "returned"

Raised ==
    pc = "end" /\ outcome.status = "raised"

\* ---------------------------------------------- claims about recommend
\* The rule and thresholds a returned Result was computed from.
RuleUsed ==
    rules.crops[outcome.value.crop]

Npk ==
    outcome.value.recommendation.npk_estimate

Messages ==
    outcome.value.messages

Tips ==
    outcome.value.tips

\* Python's exception hierarchy, as far as the claims need it.
LookupErrorKinds == {"LookupError", "KeyError", "IndexError"}

Ascending(l) ==
    \A i \in 1..(Len(l) - 1) : StrLt(l[i], l[i + 1])

\* text is the ', '-joined list of exactly the keys K in ascending order.
ListsExactlySorted(text, K) ==
    \E l \in [1..Cardinality(K) -> K] :
        /\ {l[i] : i \in 1..Len(l)} = K
        /\ Ascending(l)
        /\ text = join(l)

\* C1 (as stated): a crop whose trimmed, lowercased form is not a key of the
\* table makes recommend fail with a LookupError-kind error that lists exactly
\* the table's keys in ascending order; no Result is returned.
C1_UnknownCropRaisesLookupError ==
    (pc = "end" /\ CropKey(crop) \notin DOMAIN rules.crops) =>
        /\ outcome.status = "raised"
        /\ outcome.exc.kind \in LookupErrorKinds
        /\ ListsExactlySorted(outcome.exc.listing, DOMAIN rules.crops)

\* C1 (amended): the same failure, but the error raised is a ValueError (which
\* is not a LookupError); its message names the crop as given and lists
\* exactly the table's keys in ascending order; no Result is returned.
C1_UnknownCropRaisesValueError ==
    (pc = "end" /\ CropKey(crop) \notin DOMAIN rules.crops) =>
        /\ outcome.status = "raised"
        /\ "value" \notin DOMAIN outcome
        /\ outcome.exc.kind = "ValueError"
        /\ outcome.exc.crop = crop
        /\ ListsExactlySorted(outcome.exc.listing, DOMAIN rules.crops)

C1_Witness ==
    /\ Raised
    /\ Cardinality(DOMAIN rules.crops) = 2
    /\ crop # CropKey(crop)

\* C2: recommend called with a key that is present in the table (however the
\* table spells it: upper case, surrounding blanks) never fails with the
\* unknown-crop error.
C2_PresentKeyNeverUnknown ==
    (pc = "end" /\ crop \in DOMAIN rules.crops) => outcome.status = "returned"

\* C3 (as stated): every component of npk_estimate is >= the corresponding
\* base_npk value, whatever the base, soil value and threshold.
C3_NpkAtLeastBase ==
    Returned =>
        \A i \in 1..3 : RLe(RuleUsed.base_npk[i], I(Npk[i]))

\* C3 (amended): for a non-negative base, the component is >= round(base),
\* hence >= base when that base is an integer; for every soil value and every
\* threshold (zero and negative ones included).
C3_NpkAtLeastRoundedBase ==
    Returned =>
        \A i \in 1..3 :
            LET base == RuleUsed.base_npk[i]
            IN  RLe(Zero, base) =>
                    /\ Npk[i] >= PyRound(base)
                    /\ IsInteger(base) => RLe(base, I(Npk[i]))

C3_Witness ==
    /\ Returned
    /\ RuleUsed.base_npk[1] = I(120)
    /\ Npk[1] > 120
    /\ RLt(k, rules.thresholds.low_k)
    /\ RuleUsed.base_npk[3] = I(40)

\* C5: whenever a soil value is >= its low threshold (equality included), the
\* adjusted value of that nutrient is exactly round(base): no boost.
C5_NoBoostAtOrAboveThreshold ==
    Returned =>
        LET t == rules.thresholds
            base == RuleUsed.base_npk
        IN  /\ RLe(t.low_n, n) => Npk[1] = PyRound(base[1])
            /\ RLe(t.low_p, p) => Npk[2] = PyRound(base[2])
            /\ RLe(t.low_k, k) => Npk[3] = PyRound(base[3])

C5_Witness ==
    /\ Returned
    /\ n = rules.thresholds.low_n
    /\ k = rules.thresholds.low_k
    /\ RLt(p, rules.thresholds.low_p)
    /\ Npk[1] = 120
    /\ Npk[2] > 60

PhTexts == {"pH LOW", "pH HIGH", "pH within ideal range"}

ExpectedWarnings ==
    LET t == rules.thresholds
    IN  (IF RLt(n, t.low_n) THEN <<NitrogenWarning>> ELSE <<>>)
        \o (IF RLt(p, t.low_p) THEN <<PhosphorusWarning>> ELSE <<>>)
        \o (IF RLt(k, t.low_k) THEN <<PotassiumWarning>> ELSE <<>>)

\* C6: messages is one pH message at index 0, then the nitrogen warning iff
\* n < low_n, the phosphorus warning iff p < low_p, the potassium warning iff
\* k < low_k, in that order, and nothing else.
C6_MessagesShape ==
    Returned =>
        /\ Len(Messages) >= 1
        /\ Len(Messages) <= 4
        /\ Messages[1].text \in PhTexts
        /\ Messages[1].crop = outcome.value.crop
        /\ Tail(Messages) = ExpectedWarnings
        /\ \A i \in 2..Len(Messages) : Messages[i].text \notin PhTexts

C6_Witness ==
    /\ Returned
    /\ Len(Messages) = 3
    /\ Messages[2] = NitrogenWarning
    /\ Messages[3] = PotassiumWarning

\* C7 (as stated): LOW iff soil_ph < ideal low, HIGH iff soil_ph > ideal high,
\* "within ideal range" otherwise; soil_ph equal to either bound gives
\* "within ideal range".
C7_PhClosedInterval ==
    Returned =>
        LET lo == RuleUsed.ideal_ph[1]
            hi == RuleUsed.ideal_ph[2]
            msg == Messages[1].text
        IN  /\ msg = "pH LOW" <=> RLt(soil_ph, lo)
            /\ msg = "pH HIGH" <=> RLt(hi, soil_ph)
            /\ msg = "pH within ideal range" <=> (~RLt(soil_ph, lo) /\ ~RLt(hi, soil_ph))
            /\ (soil_ph = lo \/ soil_ph = hi) => msg = "pH within ideal range"

\* C7 (amended): LOW iff soil_ph < ideal low; HIGH iff soil_ph > ideal high
\* and not soil_ph < ideal low; "within ideal range" otherwise.  When the
\* table's range is in order (low <= high) this is the closed interval, and
\* soil_ph equal to either bound gives "within ideal range".
C7_PhAdvisory ==
    Returned =>
        LET lo == RuleUsed.ideal_ph[1]
            hi == RuleUsed.ideal_ph[2]
            msg == Messages[1].text
        IN  /\ msg = "pH LOW" <=> RLt(soil_ph, lo)
            /\ msg = "pH HIGH" <=> (RLt(hi, soil_ph) /\ ~RLt(soil_ph, lo))
            /\ msg = "pH within ideal range" <=> (~RLt(soil_ph, lo) /\ ~RLt(hi, soil_ph))
            /\ RLe(lo, hi) =>
                   /\ msg = "pH HIGH" <=> RLt(hi, soil_ph)
                   /\ (soil_ph = lo \/ soil_ph = hi) => msg = "pH within ideal range"

C7_Witness ==
    /\ Returned
    /\ soil_ph = RuleUsed.ideal_ph[2]
    /\ RLt(RuleUsed.ideal_ph[1], RuleUsed.ideal_ph[2])
    /\ Messages[1].text = "pH within ideal range"

ExpectedTip ==
    LET t == rules.thresholds
    IN  IF rainfall < t.low_rainfall_mm THEN "Rainfall is low"
        ELSE IF rainfall > t.high_rainfall_mm THEN "High rainfall"
        ELSE "Rainfall seems moderate"

NotesUsed ==
    IF "notes" \in DOMAIN RuleUsed THEN RuleUsed.notes ELSE <<>>

TipsAreNotesThenOneTip ==
    /\ Len(Tips) = Len(NotesUsed) + 1
    /\ SubSeq(Tips, 1, Len(NotesUsed)) = NotesUsed
    /\ Tips[Len(Tips)] = ExpectedTip

\* C8 (as stated): tips is the crop's notes in order, then exactly one
\* rainfall tip: low iff rainfall < low threshold, otherwise high iff
\* rainfall > high threshold, otherwise moderate; rainfall equal to either
\* threshold gives the moderate tip.
C8_TipsEqualThresholdModerate ==
    Returned =>
        /\ TipsAreNotesThenOneTip
        /\ (rainfall = rules.thresholds.low_rainfall_mm
               \/ rainfall = rules.thresholds.high_rainfall_mm)
             => Tips[Len(Tips)] = "Rainfall seems moderate"

\* C8 (amended): as stated, except that rainfall equal to either threshold
\* gives the moderate tip when low_rainfall_mm <= high_rainfall_mm.
C8_TipsOrdered ==
    Returned =>
        /\ TipsAreNotesThenOneTip
        /\ (/\ rules.thresholds.low_rainfall_mm <= rules.thresholds.high_rainfall_mm
            /\ (rainfall = rules.thresholds.low_rainfall_mm
                   \/ rainfall = rules.thresholds.high_rainfall_mm))
             => Tips[Len(Tips)] = "Rainfall seems moderate"

C8_Witness ==
    /\ Returned
    /\ Len(NotesUsed) = 2
    /\ rainfall = rules.thresholds.high_rainfall_mm
    /\ Tips[3] = "Rainfall seems moderate"

\* ------------------------------------------------- adjust called twice
AdjustBases == {I(0), Q(1, 2), Q(5, 2), I(40), I(120), I(-100)}
AdjustThresholds == {I(30), I(25), I(0), I(-10)}
AdjustSoils ==
    {I(-20), Q(-1, 2000000), I(0), I(10), I(20), I(25), I(30), I(45)}

InitAdjust ==
    /\ probe \in [status : {"args"}, base : AdjustBases, low_thr : AdjustThresholds,
                  s1 : AdjustSoils, s2 : AdjustSoils]
    /\ rules = [crops |-> <<>>, thresholds |-> ThresholdsUsual]
    /\ pc = "adjust"
    /\ crop = <<>>
    /\ soil_ph = Zero /\ n = Zero /\ p = Zero /\ k = Zero /\ rainfall = 0
    /\ outcome = NoOutcome
    /\ argv = NoArgv
    /\ raised = NoError
    /\ stdout = <<>>
    /\ history = MissingFile
    /\ reports = {}
    /\ clock = 0
    /\ runs = 0

AdjustPair ==
    /\ pc = "adjust"
    /\ probe.status = "args"
    /\ probe' = [status |-> "done", base |-> probe.base, low_thr |-> probe.low_thr,
                 s1 |-> probe.s1, s2 |-> probe.s2,
                 r1 |-> adjust(probe.base, probe.s1, probe.low_thr),
                 r2 |-> adjust(probe.base, probe.s2, probe.low_thr)]
    /\ pc' = "end"
    /\ UNCHANGED << rules, crop, soil_ph, n, p, k, rainfall, outcome, argv, raised,
                    stdout, history, reports, clock, runs >>

NextAdjust ==
    AdjustPair

SpecAdjust ==
    InitAdjust /\ [][NextAdjust]_vars

Adjusted ==
    probe.status = "done"

\* C4 (as stated): for any fixed base and low threshold and any soil values
\* s1 <= s2, adjust(base, s1, thr) >= adjust(base, s2, thr).
C4_AdjustMonotoneAnyBase ==
    (Adjusted /\ RLe(probe.s1, probe.s2)) => probe.r1 >= probe.r2

\* C4 (amended): the same for any fixed base >= 0 (a negative base is scaled
\* further down as the soil value drops).
C4_AdjustMonotoneNonNegBase ==
    (Adjusted /\ RLe(Zero, probe.base) /\ RLe(probe.s1, probe.s2)) =>
        probe.r1 >= probe.r2

\* Both calls boosted, one at the severity clamp and one below it.
C4_Witness ==
    /\ Adjusted
    /\ probe.base = I(120)
    /\ RLt(Zero, probe.low_thr)
    /\ RLt(probe.s1, Zero)
    /\ RLt(Zero, probe.s2)
    /\ RLt(probe.s2, probe.low_thr)
    /\ probe.r1 = 156
    /\ probe.r2 > 120
    /\ probe.r2 < 156

\* -------------------------------------------------- parse_float, parse_int
IsDigit(c) ==
    c >= 48 /\ c <= 57

AllDigits(s) ==
    \A i \in 1..Len(s) : IsDigit(s[i])

RECURSIVE DigitsValue(_)
DigitsValue(s) ==
    IF s = <<>> THEN 0
    ELSE DigitsValue(SubSeq(s, 1, Len(s) - 1)) * 10 + (s[Len(s)] - 48)

RECURSIVE Pow10(_)
Pow10(e) ==
    IF e = 0 THEN 1 ELSE 10 * Pow10(e - 1)

HasSign(s) ==
    s # <<>> /\ s[1] \in {43, 45}

Unsigned(s) ==
    IF HasSign(s) THEN Tail(s) ELSE s

SignOf(s) ==
    IF s # <<>> /\ s[1] = 45 THEN -1 ELSE 1

\* The decimal literals float() accepts: blanks around, an optional sign,
\* digits with at most one point and at least one digit.  (Exponents, inf,
\* nan and digit underscores are not among the enumerated arguments.)
IsFloatLiteral(val) ==
    LET u == Unsigned(strip(val))
        dots == {i \in 1..Len(u) : u[i] = 46}
    IN  /\ Cardinality(dots) <= 1
        /\ \A i \in (1..Len(u)) \ dots : IsDigit(u[i])
        /\ Len(u) > Cardinality(dots)

FloatValue(val) ==
    LET t == strip(val)
        u == Unsigned(t)
        dots == {i \in 1..Len(u) : u[i] = 46}
        d == IF dots = {} THEN Len(u) + 1 ELSE CHOOSE i \in dots : TRUE
        ip == SubSeq(u, 1, d - 1)
        fp == SubSeq(u, d + 1, Len(u))
    IN  Q(SignOf(t) * DigitsValue(ip \o fp), Pow10(Len(fp)))

\* The literals int() accepts: blanks around, an optional sign, digits only.
IsIntLiteral(val) ==
    LET u == Unsigned(strip(val))
    IN  u # <<>> /\ AllDigits(u)

IntValue(val) ==
    SignOf(strip(val)) * DigitsValue(Unsigned(strip(val)))

\* parse_float falling back to 0.0 instead of raising.
parse_float_lenient(name, val) ==
    IF IsFloatLiteral(val)
    THEN [ok |-> TRUE, value |-> FloatValue(val)]
    ELSE [ok |-> TRUE, value |-> Zero]

parse_float(name, val) ==
    IF IsFloatLiteral(val)
    THEN [ok |-> TRUE, value |-> FloatValue(val)]
    ELSE [ok |-> FALSE,
          exc |-> [kind |-> "ValueError", field |-> name, what |-> "must be a number."]]

parse_int(name, val) ==
    IF IsIntLiteral(val)
    THEN [ok |-> TRUE, value |-> IntValue(val)]
    ELSE [ok |-> FALSE,
          exc |-> [kind |-> "ValueError", field |-> name, what |-> "must be an integer."]]

\* ------------------------------------------------------------ persistence
\* The list save_history works on: the file's array, or [] when the file is
\* missing, when open() or json.load raise (the file cannot be read, or its
\* text is not JSON), or when it parses to something that is not a list.
LoadedHistory(file) ==
    IF ~file.exists THEN <<>>
    ELSE IF file.doc.type \in {"unreadable", "invalid"} THEN <<>>
    ELSE IF file.doc.type # "array" THEN <<>>
    ELSE file.doc.items

\* save_history that never reads the file back.
save_history_overwrite(file, entry) ==
    [exists |-> TRUE, doc |-> [type |-> "array", items |-> <<entry>>]]

save_history(file, entry) ==
    [exists |-> TRUE,
     doc |-> [type |-> "array", items |-> Append(LoadedHistory(file), entry)]]

\* stamped = dict(result); stamped["timestamp"] = now
Stamped(result, now) ==
    [f \in (DOMAIN result) \cup {"timestamp"} |->
        IF f = "timestamp" THEN now ELSE result[f]]

ReportPath(result, now) ==
    [crop |-> result.crop, ts |-> now]

ReportBody(result) ==
    [crop |-> result.crop, inputs |-> result.inputs,
     npk |-> result.recommendation.npk_estimate,
     explain |-> result.recommendation.explain,
     messages |-> result.messages, tips |-> result.tips,
     disclaimer |-> "Prototype advice only"]

\* open(path, "w"): a report of the same crop and second is overwritten.
save_text_report(files, result, now) ==
    {f \in files : f.path # ReportPath(result, now)}
        \cup {[path |-> ReportPath(result, now), body |-> ReportBody(result)]}

Summary(result) ==
    [line |-> "AGRO ADVISORY RESULT", crop |-> result.crop, inputs |-> result.inputs,
     npk |-> result.recommendation.npk_estimate,
     messages |-> result.messages, tips |-> result.tips]

\* ------------------------------------------------------------------- main
\* "6.5" / "x"
PhArgs == {<<54, 46, 53>>, <<120>>}
\* "20" / "x"
NArgs == {<<50, 48>>, <<120>>}
\* "30" / "3.0.1"
PArgs == {<<51, 48>>, <<51, 46, 48, 46, 49>>}
\* " 45" / "-"
KArgs == {<<SPACE, 52, 53>>, <<45>>}
\* "500" / "12.5" / "x"
RainfallArgs == {<<53, 48, 48>>, <<49, 50, 46, 53>>, <<120>>}

Argvs ==
    [ph : PhArgs, n : NArgs, p : PArgs, k : KArgs, rainfall : RainfallArgs]

\* " A" (the crop "a" after normalisation) / "aa" (not in the table)
MainCropArgs == {<<SPACE, 65>>, <<97, 97>>}

MainRules ==
    [crops |-> [key \in {<<97>>} |-> RuleMaize], thresholds |-> ThresholdsUsual]

LegacyEntry == [crop |-> <<97>>, timestamp |-> -1]

ArrayFile(items) ==
    [exists |-> TRUE, doc |-> [type |-> "array", items |-> items]]

InitialHistoryFiles ==
    { MissingFile,
      ArrayFile(<<>>),
      ArrayFile(<<LegacyEntry>>),
      [exists |-> TRUE, doc |-> [type |-> "object"]],
      [exists |-> TRUE, doc |-> [type |-> "unreadable"]],
      [exists |-> TRUE, doc |-> [type |-> "invalid"]] }

Init ==
    /\ rules = MainRules
    /\ history \in InitialHistoryFiles
    /\ pc = "idle"
    /\ crop = <<>>
    /\ soil_ph = Zero /\ n = Zero /\ p = Zero /\ k = Zero /\ rainfall = 0
    /\ outcome = NoOutcome
    /\ argv = NoArgv
    /\ raised = NoError
    /\ stdout = <<>>
    /\ reports = {}
    /\ clock = 0
    /\ runs = 0
    /\ probe = NoProbe

\* A new process: build_parser().parse_args()
Invoke ==
    /\ pc \in {"idle", "done", "aborted"}
    /\ runs < MaxRuns
    /\ runs' = runs + 1
    /\ argv' \in Argvs
    /\ crop' \in MainCropArgs
    /\ soil_ph' = Zero /\ n' = Zero /\ p' = Zero /\ k' = Zero /\ rainfall' = 0
    /\ outcome' = NoOutcome
    /\ raised' = NoError
    /\ stdout' = <<>>
    /\ pc' = "load_rules"
    /\ UNCHANGED << rules, history, reports, clock, probe >>

LoadRules ==
    /\ pc = "load_rules"
    /\ pc' = "parse_ph"
    /\ UNCHANGED << rules, crop, soil_ph, n, p, k, rainfall, outcome, argv, raised,
                    stdout, history, reports, clock, runs, probe >>

ParsePh ==
    /\ pc = "parse_ph"
    /\ LET r == parse_float("ph", argv.ph)
       IN  IF r.ok
           THEN soil_ph' = r.value /\ pc' = "parse_n" /\ UNCHANGED raised
           ELSE raised' = r.exc /\ pc' = "aborted" /\ UNCHANGED soil_ph
    /\ UNCHANGED << rules, crop, n, p, k, rainfall, outcome, argv, stdout, history,
                    reports, clock, runs, probe >>

ParseN ==
    /\ pc = "parse_n"
    /\ LET r == parse_float("n", argv.n)
       IN  IF r.ok
           THEN n' = r.value /\ pc' = "parse_p" /\ UNCHANGED raised
           ELSE raised' = r.exc /\ pc' = "aborted" /\ UNCHANGED n
    /\ UNCHANGED << rules, crop, soil_ph, p, k, rainfall, outcome, argv, stdout,
                    history, reports, clock, runs, probe >>

ParseP ==
    /\ pc = "parse_p"
    /\ LET r == parse_float("p", argv.p)
       IN  IF r.ok
           THEN p' = r.value /\ pc' = "parse_k" /\ UNCHANGED raised
           ELSE raised' = r.exc /\ pc' = "aborted" /\ UNCHANGED p
    /\ UNCHANGED << rules, crop, soil_ph, n, k, rainfall, outcome, argv, stdout,
                    history, reports, clock, runs, probe >>

ParseK ==
    /\ pc = "parse_k"
    /\ LET r == parse_float("k", argv.k)
       IN  IF r.ok
           THEN k' = r.value /\ pc' = "parse_rainfall" /\ UNCHANGED raised
           ELSE raised' = r.exc /\ pc' = "aborted" /\ UNCHANGED k
    /\ UNCHANGED << rules, crop, soil_ph, n, p, rainfall, outcome, argv, stdout,
                    history, reports, clock, runs, probe >>

ParseRainfall ==
    /\ pc = "parse_rainfall"
    /\ LET r == parse_int("rainfall", argv.rainfall)
       IN  IF r.ok
           THEN rainfall' = r.value /\ pc' = "recommend" /\ UNCHANGED raised
           ELSE raised' = r.exc /\ pc' = "aborted" /\ UNCHANGED rainfall
    /\ UNCHANGED << rules, crop, soil_ph, n, p, k, outcome, argv, stdout, history,
                    reports, clock, runs, probe >>

\* result = recommend(args.crop, soil_ph, n, p, k, rainfall, rules)
Recommend ==
    /\ pc = "recommend"
    /\ LET r == recommend(crop, soil_ph, n, p, k, rainfall, rules)
       IN  /\ outcome' = r
           /\ IF r.status = "raised"
              THEN raised' = r.exc /\ pc' = "aborted"
              ELSE pc' = "print" /\ UNCHANGED raised
    /\ UNCHANGED << rules, crop, soil_ph, n, p, k, rainfall, argv, stdout, history,
                    reports, clock, runs, probe >>

PrintSummary ==
    /\ pc = "print"
    /\ stdout' = Append(stdout, Summary(outcome.value))
    /\ pc' = "save_history"
    /\ UNCHANGED << rules, crop, soil_ph, n, p, k, rainfall, outcome, argv, raised,
                    history, reports, clock, runs, probe >>

SaveHistory ==
    /\ pc = "save_history"
    /\ history' = save_history(history, Stamped(outcome.value, clock))
    /\ pc' = "save_report"
    /\ UNCHANGED << rules, crop, soil_ph, n, p, k, rainfall, outcome, argv, raised,
                    stdout, reports, clock, runs, probe >>

SaveReport ==
    /\ pc = "save_report"
    /\ reports' = save_text_report(reports, outcome.value, clock)
    /\ stdout' = stdout \o << [line |-> "Saved", path |-> ReportPath(outcome.value, clock)],
                              [line |-> "History"] >>
    /\ pc' = "done"
    /\ UNCHANGED << rules, crop, soil_ph, n, p, k, rainfall, outcome, argv, raised,
                    history, clock, runs, probe >>

\* The wall clock moves on its own.
Tick ==
    /\ clock < MaxClock
    /\ clock' = clock + 1
    /\ UNCHANGED << rules, pc, crop, soil_ph, n, p, k, rainfall, outcome, argv, raised,
                    stdout, history, reports, runs, probe >>

Next ==
    \/ Invoke
    \/ LoadRules
    \/ ParsePh
    \/ ParseN
    \/ ParseP
    \/ ParseK
    \/ ParseRainfall
    \/ Recommend
    \/ PrintSummary
    \/ SaveHistory
    \/ SaveReport
    \/ Tick

Spec ==
    Init /\ [][Next]_vars

\* -------------------------------------------------- claims about main
\* What the history file held as a JSON array before a step (nothing, when
\* it was missing, unreadable or not an array).
ArrayBefore ==
    IF history.exists /\ history.doc.type = "array" THEN history.doc.items ELSE <<>>

\* C9: the step that saves the history never aborts and leaves the file
\* holding the array it held before (entries unchanged, same order; empty
\* when the file was missing, unreadable or no array) with exactly one new
\* entry at the end, the Result plus a timestamp; no other step of a run
\* touches the file.
C9_HistoryAppendOnly ==
    [][ /\ (pc = "save_history" /\ pc' # "save_history") =>
              /\ pc' = "save_report"
              /\ raised' = NoError
              /\ history'.exists
              /\ history'.doc.type = "array"
              /\ LET new == history'.doc.items
                     last == new[Len(new)]
                 IN  /\ Len(new) = Len(ArrayBefore) + 1
                     /\ SubSeq(new, 1, Len(ArrayBefore)) = ArrayBefore
                     /\ DOMAIN last = (DOMAIN outcome.value) \cup {"timestamp"}
                     /\ \A f \in DOMAIN outcome.value : last[f] = outcome.value[f]
                     /\ last.timestamp = clock
        /\ (pc # "save_history" \/ pc' = "save_history") => history' = history
      ]_vars

\* A second successful run has appended to what the first one wrote after
\* the legacy entry.
C9_Witness ==
    /\ pc = "save_report"
    /\ history.exists
    /\ history.doc.type = "array"
    /\ Len(history.doc.items) = 3
    /\ history.doc.items[1] = LegacyEntry
    /\ history.doc.items[3].crop = <<97>>

\* The enumerated arguments float() rejects ("x", "3.0.1", "-") and the ones
\* int() rejects (those and "12.5").
NotANumber == {<<120>>, <<51, 46, 48, 46, 49>>, <<45>>}
NotAnInteger == NotANumber \cup {<<49, 50, 46, 53>>}

BeforeResult ==
    {"load_rules", "parse_ph", "parse_n", "parse_p", "parse_k", "parse_rainfall",
     "recommend"}

AfterResult == {"print", "save_history", "save_report", "done"}

FailsAt(at, field, val, rejected) ==
    (pc = at /\ val \in rejected /\ pc' # at) =>
        /\ pc' = "aborted"
        /\ raised' = [kind |-> "ValueError", field |-> field,
                      what |-> IF field = "rainfall" THEN "must be an integer."
                               ELSE "must be a number."]
        /\ outcome' = NoOutcome

\* C10: an argument that does not parse aborts the run with an error naming
\* the field, before recommend is called; an unknown crop aborts it inside
\* recommend.  Either way nothing has been printed, the history file and the
\* report files are as the run found them, and the run takes no further
\* step.  Printing and persistence happen only once recommend has returned
\* a Result.
C10_FailedRunLeavesNoTrace ==
    [][ /\ FailsAt("parse_ph", "ph", argv.ph, NotANumber)
        /\ FailsAt("parse_n", "n", argv.n, NotANumber)
        /\ FailsAt("parse_p", "p", argv.p, NotANumber)
        /\ FailsAt("parse_k", "k", argv.k, NotANumber)
        /\ FailsAt("parse_rainfall", "rainfall", argv.rainfall, NotAnInteger)
        /\ (pc = "recommend" /\ CropKey(crop) \notin DOMAIN rules.crops /\ pc' # pc) =>
               /\ pc' = "aborted"
               /\ raised'.what = "Unknown crop"
               /\ outcome'.status = "raised"
        /\ pc \in BeforeResult =>
               /\ stdout = <<>> /\ stdout' = <<>>
               /\ history' = history
               /\ reports' = reports
        /\ pc' = "aborted" => (pc \in BeforeResult \cup {"aborted"})
        /\ pc = "aborted" =>
               \/ pc' = "aborted" /\ stdout' = stdout /\ history' = history
                                  /\ reports' = reports
               \/ pc' = "load_rules" /\ runs' = runs + 1
        /\ pc' \in AfterResult => outcome'.status = "returned"
      ]_vars

\* A run aborted on an unknown crop after an earlier run had succeeded.
C10_Witness ==
    /\ pc = "aborted"
    /\ raised.what = "Unknown crop"
    /\ stdout = <<>>
    /\ reports # {}
    /\ runs = 2

====
